---- MODULE Spec2Model ----
(***************************************************************************)
(* Workflow tracker (streamlit_app.py): the case state machine, the side   *)
(* effects of a transition, and the SQLAlchemy sessions through which the  *)
(* handlers of the pages read and write the shared database.               *)
(*                                                                         *)
(* Time is counted in whole days.  A nullable DateTime column is modelled  *)
(* as a set: {} is NULL and {t} is the timestamp t.                        *)
(***************************************************************************)
EXTENDS Integers, Sequences, FiniteSets, TLC

(* ----------------------------- bounds ---------------------------------- *)
MaxTime == 1          \* the clock runs over 0..MaxTime
MaxLogs == 9          \* rows the audit_logs table may hold

\* The model follows one Case, worked on by two concurrent script runs, of
\* whose commits at most one races with another handler on the Case.
CaseSlots == {1}              \* ids the cases table may hold
NewCaseInputs == { <<"Acme", "Smith">> }   \* "Provider" and "Client name" fields
Sessions == {1, 2}            \* slots of concurrently running script runs
SlaChoices == {10}            \* values entered in the "SLA days" field
Notes == {""}                 \* audit notes entered with a transition
Users == {"None"}             \* result of current_user(session)

(* --------------------------- constants --------------------------------- *)
NONE == "None"                \* Python None / SQL NULL of a reference
NULL == {}                    \* SQL NULL of a DateTime column
DueDays == 5                  \* create_task_for_case(due_days=5)

DRAFT == "DRAFT"
READY_TO_SEND == "READY_TO_SEND"
SENT_TO_CLIENT == "SENT_TO_CLIENT"
CLIENT_SIGNED == "CLIENT_SIGNED"
CLIENT_OPTED_OUT == "CLIENT_OPTED_OUT"
RECEIVED_PAPERWORK == "RECEIVED_PAPERWORK"
SUBMITTED_TO_PROVIDER == "SUBMITTED_TO_PROVIDER"
PROVIDER_UPLIFTED == "PROVIDER_UPLIFTED"
IO_CLOSED_NEW_FEE == "IO_CLOSED_NEW_FEE"
COMPLETED == "COMPLETED"

CaseStatus ==
  { DRAFT, READY_TO_SEND, SENT_TO_CLIENT, CLIENT_SIGNED, CLIENT_OPTED_OUT,
    RECEIVED_PAPERWORK, SUBMITTED_TO_PROVIDER, PROVIDER_UPLIFTED,
    IO_CLOSED_NEW_FEE, COMPLETED }

OPEN == "OPEN"

DEFAULT_TEAMS ==
  { "Data", "Admin Solution", "Ops Support", "Tech Excellence Center",
    "Submission & Novation", "Support Hub", "Post", "IS" }

\* a routing table that gives both terminal statuses no team
NEXT_TEAM_HINT_terminals_unrouted ==
  [ st \in CaseStatus |->
      CASE st = DRAFT                 -> "Data"
        [] st = READY_TO_SEND         -> "Admin Solution"
        [] st = SENT_TO_CLIENT        -> "Ops Support"
        [] st = CLIENT_SIGNED         -> "Submission & Novation"
        [] st = CLIENT_OPTED_OUT      -> NONE
        [] st = RECEIVED_PAPERWORK    -> "Submission & Novation"
        [] st = SUBMITTED_TO_PROVIDER -> "Tech Excellence Center"
        [] st = PROVIDER_UPLIFTED     -> "IS"
        [] st = IO_CLOSED_NEW_FEE     -> "Admin Solution"
        [] st = COMPLETED             -> NONE ]

NEXT_TEAM_HINT ==
  [ st \in CaseStatus |->
      CASE st = DRAFT                 -> "Data"
        [] st = READY_TO_SEND         -> "Admin Solution"
        [] st = SENT_TO_CLIENT        -> "Ops Support"
        [] st = CLIENT_SIGNED         -> "Submission & Novation"
        [] st = CLIENT_OPTED_OUT      -> "Support Hub"
        [] st = RECEIVED_PAPERWORK    -> "Submission & Novation"
        [] st = SUBMITTED_TO_PROVIDER -> "Tech Excellence Center"
        [] st = PROVIDER_UPLIFTED     -> "IS"
        [] st = IO_CLOSED_NEW_FEE     -> "Admin Solution"
        [] st = COMPLETED             -> NONE ]

Tr(from, label, to, audit) ==
  [from |-> from, label |-> label, to |-> to, audit |-> audit]

\* the table without its last entry
TRANSITIONS_without_complete ==
  { Tr(DRAFT, "Mark Ready to Send", READY_TO_SEND, "ready_to_send"),
    Tr(READY_TO_SEND, "Send to Client", SENT_TO_CLIENT, "sent_to_client"),
    Tr(SENT_TO_CLIENT, "Mark Client Signed", CLIENT_SIGNED, "client_signed"),
    Tr(SENT_TO_CLIENT, "Mark Client Opted Out", CLIENT_OPTED_OUT, "client_opted_out"),
    Tr(CLIENT_SIGNED, "Mark Docs Received", RECEIVED_PAPERWORK, "received_paperwork"),
    Tr(RECEIVED_PAPERWORK, "Submit to Provider", SUBMITTED_TO_PROVIDER, "submitted_to_provider"),
    Tr(SUBMITTED_TO_PROVIDER, "Provider Uplifted", PROVIDER_UPLIFTED, "provider_uplifted"),
    Tr(PROVIDER_UPLIFTED, "Close Fee in IO & Create New", IO_CLOSED_NEW_FEE, "io_closed_new_fee") }

TRANSITIONS ==
  { Tr(DRAFT, "Mark Ready to Send", READY_TO_SEND, "ready_to_send"),
    Tr(READY_TO_SEND, "Send to Client", SENT_TO_CLIENT, "sent_to_client"),
    Tr(SENT_TO_CLIENT, "Mark Client Signed", CLIENT_SIGNED, "client_signed"),
    Tr(SENT_TO_CLIENT, "Mark Client Opted Out", CLIENT_OPTED_OUT, "client_opted_out"),
    Tr(CLIENT_SIGNED, "Mark Docs Received", RECEIVED_PAPERWORK, "received_paperwork"),
    Tr(RECEIVED_PAPERWORK, "Submit to Provider", SUBMITTED_TO_PROVIDER, "submitted_to_provider"),
    Tr(SUBMITTED_TO_PROVIDER, "Provider Uplifted", PROVIDER_UPLIFTED, "provider_uplifted"),
    Tr(PROVIDER_UPLIFTED, "Close Fee in IO & Create New", IO_CLOSED_NEW_FEE, "io_closed_new_fee"),
    Tr(IO_CLOSED_NEW_FEE, "Complete Case", COMPLETED, "completed") }

\* The action labels a caller may pass: those of the table and one that is
\* no key of it for any status.
ActionLabels == { t.label : t \in TRANSITIONS } \cup { "Reopen" }

(* ----------------------------- state ----------------------------------- *)
VARIABLES
  now,         \* datetime.utcnow(), in days
  cases,       \* table cases: row id = index
  tasks,       \* table tasks, in insertion (id) order
  audit_logs,  \* table audit_logs, in insertion (id) order
  sess,        \* per script run: its Session (identity map and pending objects)
  raced,       \* per Case: a commit has raced with another handler on it
  succeeded,   \* per Case: the transitions applied and committed so far
  providers,   \* table providers (name), in insertion (id) order
  clients      \* table clients (name, provider), in insertion (id) order

vars == <<now, cases, tasks, audit_logs, sess, raced, succeeded, providers, clients>>

\* key in TRANSITIONS
KeyInTransitions(status, label) ==
  \E t \in TRANSITIONS : t.from = status /\ t.label = label

\* TRANSITIONS[key]
Lookup(status, label) ==
  CHOOSE t \in TRANSITIONS : t.from = status /\ t.label = label

\* session.query(Team).filter(Team.name == hint).first() over the seeded teams
TeamByName(name) == IF name \in DEFAULT_TEAMS THEN name ELSE NONE

\* page_case_detail: the labels offered as "Next Actions" for a status
available(status) == { t.label : t \in { x \in TRANSITIONS : x.from = status } }

\* A unit of work u: the Case object (u.obj), the objects added to the
\* session and not yet flushed (u.new_tasks, u.new_logs).
assign_next_team(u) ==
  LET hint == NEXT_TEAM_HINT[u.obj.status] IN
  IF hint = NONE
    THEN [u EXCEPT !.obj.assigned_team = NONE]
    ELSE [u EXCEPT !.obj.assigned_team = TeamByName(hint)]

\* create_task_for_case without the test for a missing team
create_task_for_case_unguarded(u, title, t) ==
  [u EXCEPT !.new_tasks = Append(@,
      [ case_id |-> u.cid, team |-> u.obj.assigned_team, title |-> title,
        status |-> OPEN, due_at |-> {t + DueDays} ])]

create_task_for_case(u, title, t) ==
  IF u.obj.assigned_team = NONE
    THEN u
    ELSE [u EXCEPT !.new_tasks = Append(@,
            [ case_id |-> u.cid, team |-> u.obj.assigned_team, title |-> title,
              status |-> OPEN, due_at |-> {t + DueDays} ])]

\* log_action that records every transition under one action name
log_action_generic(u, user, action, notes) ==
  [u EXCEPT !.new_logs = Append(@,
      [ case_id |-> u.cid, user_id |-> user,
        action |-> IF action = "created" THEN action ELSE "transition",
        notes |-> notes ])]

log_action(u, user, action, notes) ==
  [u EXCEPT !.new_logs = Append(@,
      [ case_id |-> u.cid, user_id |-> user, action |-> action, notes |-> notes ])]

\* a due date counted from the creation of the Case
SlaDue_from_creation(u, t) == { x + u.obj.sla_days : x \in u.obj.created_at }

\* case.due_at = datetime.utcnow() + timedelta(days=case.sla_days)
SlaDue(u, t) == {t + u.obj.sla_days}

\* apply_transition that records the refused action before it returns False
apply_transition_logs_refusal(u, user, action_label, notes, t) ==
  IF ~KeyInTransitions(u.obj.status, action_label)
    THEN [log_action(u, user, "rejected", notes) EXCEPT !.ret = FALSE]
    ELSE
      LET tr == Lookup(u.obj.status, action_label)
          u1 == [u EXCEPT !.obj.status = tr.to]
          u2 == [u1 EXCEPT !.obj.due_at = SlaDue(u1, t)]
          u3 == assign_next_team(u2)
          u4 == create_task_for_case(u3, tr.to, t)
          u5 == log_action(u4, user, tr.audit, notes)
      IN [u5 EXCEPT !.ret = TRUE]

\* apply_transition that writes an audit entry only for a call with notes
apply_transition_logs_if_notes(u, user, action_label, notes, t) ==
  IF ~KeyInTransitions(u.obj.status, action_label)
    THEN [u EXCEPT !.ret = FALSE]
    ELSE
      LET tr == Lookup(u.obj.status, action_label)
          u1 == [u EXCEPT !.obj.status = tr.to]
          u2 == [u1 EXCEPT !.obj.due_at = SlaDue(u1, t)]
          u3 == assign_next_team(u2)
          u4 == create_task_for_case(u3, tr.to, t)
          u5 == IF notes = "" THEN u4 ELSE log_action(u4, user, tr.audit, notes)
      IN [u5 EXCEPT !.ret = TRUE]

\* apply_transition that routes and logs the Case and leaves its status
apply_transition_keeps_status(u, user, action_label, notes, t) ==
  IF ~KeyInTransitions(u.obj.status, action_label)
    THEN [u EXCEPT !.ret = FALSE]
    ELSE
      LET tr == Lookup(u.obj.status, action_label)
          u2 == [u EXCEPT !.obj.due_at = SlaDue(u, t)]
          u3 == assign_next_team(u2)
          u4 == create_task_for_case(u3, tr.to, t)
          u5 == log_action(u4, user, tr.audit, notes)
      IN [u5 EXCEPT !.ret = TRUE]

\* apply_transition that looks the entry up by its label alone
apply_transition_by_label(u, user, action_label, notes, t) ==
  IF ~\E x \in TRANSITIONS : x.label = action_label
    THEN [u EXCEPT !.ret = FALSE]
    ELSE
      LET tr == CHOOSE x \in TRANSITIONS : x.label = action_label
          u1 == [u EXCEPT !.obj.status = tr.to]
          u2 == [u1 EXCEPT !.obj.due_at = SlaDue(u1, t)]
          u3 == assign_next_team(u2)
          u4 == create_task_for_case(u3, tr.to, t)
          u5 == log_action(u4, user, tr.audit, notes)
      IN [u5 EXCEPT !.ret = TRUE]

\* apply_transition that spawns the task before it routes the Case
apply_transition_task_before_routing(u, user, action_label, notes, t) ==
  IF ~KeyInTransitions(u.obj.status, action_label)
    THEN [u EXCEPT !.ret = FALSE]
    ELSE
      LET tr == Lookup(u.obj.status, action_label)
          u1 == [u EXCEPT !.obj.status = tr.to]
          u2 == [u1 EXCEPT !.obj.due_at = SlaDue(u1, t)]
          u3 == create_task_for_case(u2, tr.to, t)
          u4 == assign_next_team(u3)
          u5 == log_action(u4, user, tr.audit, notes)
      IN [u5 EXCEPT !.ret = TRUE]

\* apply_transition: the unit of work after the call, with the value returned
apply_transition(u, user, action_label, notes, t) ==
  IF ~KeyInTransitions(u.obj.status, action_label)
    THEN [u EXCEPT !.ret = FALSE]
    ELSE
      LET tr == Lookup(u.obj.status, action_label)
          u1 == [u EXCEPT !.obj.status = tr.to]
          u2 == [u1 EXCEPT !.obj.due_at = SlaDue(u1, t)]
          u3 == assign_next_team(u2)
          u4 == create_task_for_case(u3, tr.to, t)
          u5 == log_action(u4, user, tr.audit, notes)
      IN [u5 EXCEPT !.ret = TRUE]

(* ----------------------------- sessions -------------------------------- *)
NoCase ==
  [ status |-> DRAFT, due_at |-> NULL, assigned_team |-> NONE,
    sla_days |-> 0, created_at |-> NULL, client |-> "", provider |-> "" ]

\* A Session that holds nothing: get_session() / SessionLocal(), and what
\* close() leaves behind.
IdleSession ==
  [ pc |-> "idle", cid |-> 0, base |-> NoCase, obj |-> NoCase,
    new_tasks |-> <<>>, new_logs |-> <<>>, ret |-> FALSE,
    provider_name |-> "", client_name |-> "" ]

CaseIds == 1..Len(cases)

\* session.query(Case).get(active_id): the unit of work holding the row read
Loaded(c) ==
  [IdleSession EXCEPT !.pc = "loaded", !.cid = c, !.base = cases[c], !.obj = cases[c]]

\* A script run that starts takes the first slot that is free.
Free(s) ==
  /\ sess[s].pc = "idle"
  /\ \A r \in Sessions : r < s => sess[r].pc # "idle"

\* the row of the Case that session s holds has changed since s read it
Stale(s) ==
  LET row == cases[sess[s].cid] base == sess[s].base IN
    \/ row.status # base.status
    \/ row.due_at # base.due_at
    \/ row.assigned_team # base.assigned_team

\* the other sessions that are in the middle of a handler on Case c
Holders(s, c) ==
  { r \in Sessions \ {s} : sess[r].pc # "idle" /\ sess[r].cid = c }

\* the commit of session s races with another handler on its Case: the row
\* changed under it, or the run that created the Case has not finished
Racy(s) ==
  \/ Stale(s)
  \/ \E r \in Holders(s, sess[s].cid) : sess[r].pc = "case_saved"

\* a flush whose UPDATE holds the status column only
FlushCase_status_only(row, base, obj) ==
  [ row EXCEPT !.status = obj.status ]

\* The UPDATE a flush emits for a Case: the unit of work writes only the
\* columns whose value differs from the one it loaded (base).  due_at is
\* always written: a utcnow() of microsecond resolution never equals the
\* value loaded, which the clock of whole days would hide.
FlushCase(row, base, obj) ==
  [ row EXCEPT
      !.status = IF obj.status # base.status THEN obj.status ELSE @,
      !.due_at = obj.due_at,
      !.assigned_team =
          IF obj.assigned_team # base.assigned_team THEN obj.assigned_team ELSE @ ]

\* a flush that closes the tasks the Case had when it inserts a new one
FlushTasks_closing_prior(table, new) ==
  [ i \in 1..Len(table) |->
      IF \E k \in 1..Len(new) : new[k].case_id = table[i].case_id
        THEN [table[i] EXCEPT !.status = "DONE"]
        ELSE table[i] ] \o new

\* a flush that closes every task of the table when it inserts a new one
FlushTasks_closing_all(table, new) ==
  [ i \in 1..Len(table) |-> [table[i] EXCEPT !.status = "DONE"] ] \o new

\* The INSERTs a flush emits for the tasks added to the session: the rows
\* of the table are not touched.
FlushTasks(table, new) == table \o new

\* AuditLog.created_at default=datetime.utcnow, evaluated at the INSERT
StampLogs(logs, t) ==
  [ i \in 1..Len(logs) |->
      [ case_id |-> logs[i].case_id, user_id |-> logs[i].user_id,
        action |-> logs[i].action, notes |-> logs[i].notes, created_at |-> {t} ] ]

\* s.query(Provider).filter(Provider.name == provider_name).first()
ProviderFound(name) == \E i \in 1..Len(providers) : providers[i] = name

\* s.query(Client).filter(Client.name == client_name).first()
ClientFound(table, name) == \E i \in 1..Len(table) : table[i].name = name

\* the "Create Case" handler past its provider: it looks the client up and
\* goes on to insert it, or to build the Case when the client is there
EnsureClient(u, table) ==
  IF ClientFound(table, u.client_name)
    THEN [u EXCEPT !.pc = "case"]
    ELSE [u EXCEPT !.pc = "client_new"]

\* the script runs that are in the "Create Case" handler before its Case is
\* inserted
Creating ==
  { r \in Sessions : sess[r].pc \in {"provider_new", "client_new", "case"} }

Init ==
  /\ now = 0
  /\ cases = <<>>
  /\ tasks = <<>>
  /\ audit_logs = <<>>
  /\ sess = [s \in Sessions |-> IdleSession]
  /\ raced = <<>>
  /\ succeeded = <<>>
  /\ providers = <<>>
  /\ clients = <<>>

(* ------------------------------ actions -------------------------------- *)
\* the wall clock advances
Tick ==
  /\ now < MaxTime
  /\ now' = now + 1
  /\ UNCHANGED <<cases, tasks, audit_logs, sess, raced, succeeded, providers, clients>>

\* page_cases, "Create Case" pressed with the fields of the form: the
\* provider is looked up by name and, when it is there, the client.  slots
\* are the ids the cases table may hold.
BeginCreate(s, provider_name, client_name, sla, slots) ==
  /\ Free(s)
  /\ Len(cases) + Cardinality(Creating) + 1 \in slots
  /\ LET u == [IdleSession EXCEPT !.provider_name = provider_name,
                                  !.client_name = client_name,
                                  !.obj.sla_days = sla]
     IN sess' = [sess EXCEPT ![s] =
                   IF ProviderFound(provider_name)
                     THEN EnsureClient(u, clients)
                     ELSE [u EXCEPT !.pc = "provider_new"]]
  /\ UNCHANGED <<now, cases, tasks, audit_logs, raced, succeeded, providers, clients>>

\* page_cases: s.add(provider); s.commit().  Provider.name is unique: when
\* another run has inserted the name since the lookup, the INSERT raises
\* IntegrityError and the handler ends there.
CommitProvider(s) ==
  /\ sess[s].pc = "provider_new"
  /\ IF ProviderFound(sess[s].provider_name)
       THEN /\ sess' = [sess EXCEPT ![s] = IdleSession]
            /\ UNCHANGED providers
       ELSE /\ providers' = Append(providers, sess[s].provider_name)
            /\ sess' = [sess EXCEPT ![s] = EnsureClient(sess[s], clients)]
  /\ UNCHANGED <<now, cases, tasks, audit_logs, raced, succeeded, clients>>

\* page_cases: s.add(client); s.commit().  Client.name is not unique.
CommitClient(s) ==
  /\ sess[s].pc = "client_new"
  /\ clients' = Append(clients, [ name |-> sess[s].client_name,
                                  provider |-> sess[s].provider_name ])
  /\ sess' = [sess EXCEPT ![s].pc = "case"]
  /\ UNCHANGED <<now, cases, tasks, audit_logs, raced, succeeded, providers>>

\* page_cases, "Create Case": the Case is built in DRAFT, routed, inserted
\* and committed
CreateCase(s) ==
  /\ sess[s].pc = "case"
  /\ LET cid == Len(cases) + 1
         u0 == [sess[s] EXCEPT
                  !.cid = cid,
                  !.obj = [ status |-> DRAFT, due_at |-> NULL, assigned_team |-> NONE,
                            sla_days |-> sess[s].obj.sla_days, created_at |-> {now},
                            client |-> sess[s].client_name,
                            provider |-> sess[s].provider_name ]]
         u1 == assign_next_team(u0)
     IN /\ cases' = Append(cases, u1.obj)
        /\ sess' = [sess EXCEPT ![s] = [u1 EXCEPT !.pc = "case_saved", !.base = u1.obj]]
  /\ succeeded' = Append(succeeded, 0)
  /\ raced' = Append(raced, FALSE)
  /\ UNCHANGED <<now, tasks, audit_logs, providers, clients>>

\* page_cases, "Create Case": the "created" audit entry and its commit
LogCreated(s, user) ==
  /\ sess[s].pc = "case_saved"
  /\ Len(SelectSeq(audit_logs, LAMBDA r : r.case_id = sess[s].cid)) < MaxLogs
  /\ LET u == log_action(sess[s], user, "created", "Case created")
     IN audit_logs' = audit_logs \o StampLogs(u.new_logs, now)
  /\ sess' = [sess EXCEPT ![s] = IdleSession]
  /\ UNCHANGED <<now, cases, tasks, raced, succeeded, providers, clients>>

\* page_case_detail, a button of "Next Actions" pressed: the Case is read and
\* apply_transition is called on it.  When it returns False nothing is
\* committed and the script run ends; when it returns True the commit is the
\* next step of the run.
Transition(s, c, user, label, notes) ==
  /\ Free(s)
  /\ c \in CaseIds
  /\ LET u == apply_transition(Loaded(c), user, label, notes, now)
     IN sess' = IF u.ret THEN [sess EXCEPT ![s] = [u EXCEPT !.pc = "applied"]]
                         ELSE sess
  /\ UNCHANGED <<now, cases, tasks, audit_logs, raced, succeeded, providers, clients>>

\* page_case_detail: session.commit() after apply_transition returned True
Commit(s) ==
  /\ sess[s].pc = "applied"
  /\ Len(SelectSeq(audit_logs, LAMBDA r : r.case_id = sess[s].cid))
       + Len(sess[s].new_logs) <= MaxLogs
  /\ (Racy(s) \/ Holders(s, sess[s].cid) # {}) => ~raced[sess[s].cid]
  /\ raced' = [raced EXCEPT ![sess[s].cid] = @ \/ Racy(s)]
  /\ LET u == sess[s] IN
       /\ cases' = [cases EXCEPT ![u.cid] = FlushCase(@, u.base, u.obj)]
       /\ tasks' = FlushTasks(tasks, u.new_tasks)
       /\ audit_logs' = audit_logs \o StampLogs(u.new_logs, now)
       /\ succeeded' = [succeeded EXCEPT ![u.cid] = @ + 1]
  /\ sess' = [sess EXCEPT ![s] = IdleSession]
  /\ UNCHANGED <<now, providers, clients>>

\* an error ends the script run before its commit: the with block closes
\* the Session, which rolls back what was not committed
Close(s) ==
  /\ sess[s].pc # "idle"
  /\ sess' = [sess EXCEPT ![s] = IdleSession]
  /\ UNCHANGED <<now, cases, tasks, audit_logs, raced, succeeded, providers, clients>>

Next ==
  \/ Tick
  \/ \E s \in Sessions, names \in NewCaseInputs, sla \in SlaChoices :
       BeginCreate(s, names[1], names[2], sla, CaseSlots)
  \/ \E s \in Sessions : CommitProvider(s)
  \/ \E s \in Sessions : CommitClient(s)
  \/ \E s \in Sessions : CreateCase(s)
  \/ \E s \in Sessions, user \in Users : LogCreated(s, user)
  \/ \E s \in Sessions, c \in CaseSlots, user \in Users,
        label \in ActionLabels, notes \in Notes : Transition(s, c, user, label, notes)
  \/ \E s \in Sessions : Commit(s)
  \/ \E s \in Sessions : Close(s)

Spec == Init /\ [][Next]_vars

\* The "Create Case" form alone, submitted twice, with and without its
\* names.
TwoCaseSlots == {1, 2}
FormInputs == { <<"Acme", "Smith">>, <<"", "Smith">>, <<"Acme", "">> }

NextCreate ==
  \/ Tick
  \/ \E s \in Sessions, names \in FormInputs, sla \in SlaChoices :
       BeginCreate(s, names[1], names[2], sla, TwoCaseSlots)
  \/ \E s \in Sessions : CommitProvider(s)
  \/ \E s \in Sessions : CommitClient(s)
  \/ \E s \in Sessions : CreateCase(s)
  \/ \E s \in Sessions, user \in Users : LogCreated(s, user)
  \/ \E s \in Sessions : Close(s)

SpecCreate == Init /\ [][NextCreate]_vars

\* Two Cases side by side, taken through the first steps of the workflow.
TwoCaseLabels == { "Mark Ready to Send", "Send to Client" }

NextTwoCases ==
  \/ \E s \in Sessions, names \in NewCaseInputs, sla \in SlaChoices :
       BeginCreate(s, names[1], names[2], sla, TwoCaseSlots)
  \/ \E s \in Sessions : CommitProvider(s)
  \/ \E s \in Sessions : CommitClient(s)
  \/ \E s \in Sessions : CreateCase(s)
  \/ \E s \in Sessions, user \in Users : LogCreated(s, user)
  \/ \E s \in Sessions, c \in TwoCaseSlots, user \in Users,
        label \in TwoCaseLabels, notes \in Notes : Transition(s, c, user, label, notes)
  \/ \E s \in Sessions : Commit(s)
  \/ \E s \in Sessions : Close(s)

SpecTwoCases == Init /\ [][NextTwoCases]_vars

(* ------------------------- reading the tables -------------------------- *)
\* the audit entries / tasks of Case c, in insertion order
RowsOf(table, c) == SelectSeq(table, LAMBDA r : r.case_id = c)
LogsOf(c) == RowsOf(audit_logs, c)
TasksOf(c) == RowsOf(tasks, c)
ActionsOf(c) == [i \in 1..Len(LogsOf(c)) |-> LogsOf(c)[i].action]

\* the step is the commit by session s of a transition it applied
CommitStep(s) ==
  /\ sess[s].pc = "applied"
  /\ sess'[s].pc = "idle"
  /\ audit_logs' # audit_logs

\* the step is the call of apply_transition by session s, returning True
ApplyStep(s) ==
  /\ sess[s].pc = "idle"
  /\ sess'[s].pc = "applied"

(* ------------------------------- C1 ------------------------------------ *)
\* C1: for every Case row a handler can load and every action label that is
\* no key of the transition table for the row's status, apply_transition
\* returns False and leaves status, due_at and assigned_team of the Case as
\* loaded, with no Task and no AuditLog added to the session.
C1_IllegalLabelRejected ==
  \A c \in CaseIds, label \in ActionLabels, user \in Users, notes \in Notes :
    ~KeyInTransitions(cases[c].status, label) =>
      LET u == apply_transition(Loaded(c), user, label, notes, now) IN
        /\ u.ret = FALSE
        /\ u.obj = cases[c]
        /\ u.new_tasks = <<>>
        /\ u.new_logs = <<>>

\* a Case that has moved on, so that the label that was legal no longer is,
\* with tasks and audit entries that a rejected call must leave alone
C1_Witness ==
  \E c \in CaseIds :
    /\ cases[c].status = SENT_TO_CLIENT
    /\ ~KeyInTransitions(cases[c].status, "Send to Client")
    /\ Len(TasksOf(c)) = 2
    /\ Len(LogsOf(c)) = 3

(* ------------------------------- C2 ------------------------------------ *)
\* C2 as claimed: every commit of a successful apply_transition adds exactly
\* one Task and exactly one AuditLog, the transition into COMPLETED included.
C2_OneTaskPerTransition ==
  [][\A s \in Sessions :
       CommitStep(s) =>
         /\ Len(tasks') = Len(tasks) + 1
         /\ Len(audit_logs') = Len(audit_logs) + 1]_vars

\* C2 amended: every commit of a successful apply_transition adds exactly one
\* AuditLog of the Case, and exactly one Task of the Case unless the new
\* status is COMPLETED, for which no team is assigned and no Task is added.
C2_OneAuditAndTaskIfTeam ==
  [][\A s \in Sessions :
       CommitStep(s) =>
         LET c == sess[s].cid
             n == IF sess[s].obj.status = COMPLETED THEN 0 ELSE 1 IN
           /\ Len(RowsOf(tasks', c)) = Len(TasksOf(c)) + n
           /\ Len(tasks') = Len(tasks) + n
           /\ Len(RowsOf(audit_logs', c)) = Len(LogsOf(c)) + 1
           /\ Len(audit_logs') = Len(audit_logs) + 1]_vars

\* the whole path was walked: nine audit entries, and seven tasks only
C2_Witness ==
  \E c \in CaseIds :
    /\ cases[c].status = COMPLETED
    /\ succeeded[c] = 8
    /\ Len(TasksOf(c)) = 7
    /\ Len(LogsOf(c)) = 9

(* ------------------------------- C3 ------------------------------------ *)
\* C3: of two sessions that applied a transition to the same Case read in the
\* same status, only one commits: no commit is made by a session whose Case
\* row has changed status since the session read it.
C3_NoLostUpdate ==
  [][\A s \in Sessions :
       CommitStep(s) => cases[sess[s].cid].status = sess[s].base.status]_vars

(* ------------------------------- C4 ------------------------------------ *)
\* the step appends the "created" entry of Case c and nothing else to its trail
CreatedAppended(c) ==
  LET old == LogsOf(c) new == RowsOf(audit_logs', c) IN
    /\ Len(new) = Len(old) + 1
    /\ SubSeq(new, 1, Len(old)) = old
    /\ new[Len(new)].action = "created"

\* the step changes what the shared store holds of the workflow of Case c
StoreChanged(c) ==
  \/ cases'[c] # cases[c]
  \/ RowsOf(tasks', c) # TasksOf(c)
  \/ RowsOf(audit_logs', c) # LogsOf(c) /\ ~CreatedAppended(c)

\* C4: a transition is all-or-nothing in the shared store.  Every step that
\* changes the row, the tasks or the audit trail of a Case is the commit of
\* one unit of work, and that one step makes all its effects visible: the
\* new status, the recomputed due_at, the reassigned team, the task for the
\* assigned team (none without a team) and the audit entry.  No other step (a call not yet committed, an aborted run) changes
\* any of them.
C4_AllOrNothing ==
  [][\A c \in CaseIds :
       StoreChanged(c) =>
         \E s \in Sessions :
           /\ CommitStep(s)
           /\ sess[s].cid = c
           /\ LET u == sess[s]
                  tr == CHOOSE t \in TRANSITIONS :
                          t.from = u.base.status /\ t.to = u.obj.status
              IN /\ cases'[c].status = tr.to
                 /\ cases'[c].due_at = u.obj.due_at
                 /\ cases'[c].due_at # NULL
                 /\ cases'[c].assigned_team = u.obj.assigned_team
                 /\ RowsOf(audit_logs', c) = Append(LogsOf(c),
                      [ case_id |-> c, user_id |-> u.new_logs[1].user_id,
                        action |-> tr.audit, notes |-> u.new_logs[1].notes,
                        created_at |-> {now} ])
                 /\ RowsOf(tasks', c) =
                      IF u.obj.assigned_team = NONE
                        THEN TasksOf(c)
                        ELSE Append(TasksOf(c),
                               [ case_id |-> c, team |-> u.obj.assigned_team,
                                 title |-> tr.to, status |-> OPEN,
                                 due_at |-> u.new_tasks[1].due_at ])]_vars

(* ------------------------------- C5 ------------------------------------ *)
\* C5: a successful apply_transition executed at time t sets the due_at of
\* the Case to t + sla_days, whatever its created_at and its previous due_at,
\* and the commit stores that value.
C5_DueAtResets ==
  [][\A s \in Sessions :
       /\ ApplyStep(s) =>
            sess'[s].obj.due_at = {now + sess'[s].obj.sla_days}
       /\ CommitStep(s) =>
            cases'[sess[s].cid].due_at = sess[s].obj.due_at]_vars

\* a Case created at T = 0 with sla_days = 10 and moved twice at T + 1 is due
\* at T + 11: neither at T + 10 nor at T + 21
C5_Witness ==
  \E c \in CaseIds :
    /\ cases[c].created_at = {0}
    /\ cases[c].sla_days = 10
    /\ cases[c].status = SENT_TO_CLIENT
    /\ LogsOf(c)[2].created_at = {1}
    /\ cases[c].due_at = {11}

(* ------------------------------- C6 ------------------------------------ *)
PathLabels ==
  << "Mark Ready to Send", "Send to Client", "Mark Client Signed",
     "Mark Docs Received", "Submit to Provider", "Provider Uplifted",
     "Close Fee in IO & Create New", "Complete Case" >>

PathStatuses ==
  << DRAFT, READY_TO_SEND, SENT_TO_CLIENT, CLIENT_SIGNED, RECEIVED_PAPERWORK,
     SUBMITTED_TO_PROVIDER, PROVIDER_UPLIFTED, IO_CLOSED_NEW_FEE, COMPLETED >>

PathTrail ==
  << "created", "ready_to_send", "sent_to_client", "client_signed",
     "received_paperwork", "submitted_to_provider", "provider_uplifted",
     "io_closed_new_fee", "completed" >>

\* C6: on a Case that was created and to which the first k actions of the
\* path were applied in order, and nothing else (its trail is "created" and
\* the k entries of these actions), the status is the k-th status of the
\* path, the next action of the path succeeds and leads to the next status of
\* the path, and after the eighth the Case is COMPLETED with no team.
C6_FullPath ==
  \A c \in CaseIds, k \in 0..Len(PathLabels) :
    ActionsOf(c) = SubSeq(PathTrail, 1, k + 1) =>
      /\ cases[c].status = PathStatuses[k + 1]
      /\ k < Len(PathLabels) =>
           \A user \in Users, notes \in Notes :
             LET u == apply_transition(Loaded(c), user, PathLabels[k + 1], notes, now) IN
               /\ u.ret = TRUE
               /\ u.obj.status = PathStatuses[k + 2]
      /\ k = Len(PathLabels) =>
           /\ cases[c].status = COMPLETED
           /\ cases[c].assigned_team = NONE

C6_Witness ==
  \E c \in CaseIds :
    /\ ActionsOf(c) = PathTrail
    /\ succeeded[c] = Len(PathLabels)
    /\ cases[c].status = COMPLETED
    /\ cases[c].assigned_team = NONE

(* ------------------------------- C7 ------------------------------------ *)
\* C7: on a Case in SENT_TO_CLIENT the action "Mark Client Opted Out"
\* succeeds and gives status CLIENT_OPTED_OUT and team "Support Hub", which
\* is what the commit stores; on a Case in CLIENT_OPTED_OUT apply_transition
\* returns False for every action label.
C7_OptOutIsTerminal ==
  \A c \in CaseIds, user \in Users, notes \in Notes :
    /\ cases[c].status = SENT_TO_CLIENT =>
         LET u == apply_transition(Loaded(c), user, "Mark Client Opted Out", notes, now) IN
           /\ u.ret = TRUE
           /\ u.obj.status = CLIENT_OPTED_OUT
           /\ u.obj.assigned_team = "Support Hub"
    /\ cases[c].status = CLIENT_OPTED_OUT =>
         /\ cases[c].assigned_team = "Support Hub"
         /\ \A label \in ActionLabels :
              apply_transition(Loaded(c), user, label, notes, now).ret = FALSE

C7_Witness ==
  \E c \in CaseIds :
    /\ cases[c].status = CLIENT_OPTED_OUT
    /\ cases[c].assigned_team = "Support Hub"
    /\ ActionsOf(c) = <<"created", "ready_to_send", "sent_to_client", "client_opted_out">>

(* ------------------------------- C8 ------------------------------------ *)
\* C8: the audit history of a created Case (its "created" entry is written)
\* on which N transitions succeeded, whatever calls were refused in between,
\* holds exactly N + 1 entries, and their created_at never decreases in
\* insertion order.
C8_HistoryLength ==
  \A c \in CaseIds :
    LET h == LogsOf(c) IN
      /\ (\E i \in 1..Len(h) : h[i].action = "created") =>
           Len(h) = succeeded[c] + 1
      /\ \A i, j \in 1..Len(h) :
           i < j => \A a \in h[i].created_at, b \in h[j].created_at : a <= b

\* three entries written on two days for a Case with two successful
\* transitions
C8_Witness ==
  \E c \in CaseIds :
    LET h == LogsOf(c) IN
      /\ succeeded[c] = 2
      /\ Len(h) = 3
      /\ h[1].action = "created"
      /\ h[1].created_at = {0}
      /\ h[3].created_at = {1}

(* ------------------------------- C9 ------------------------------------ *)
\* C9: in every state the team of a stored Case, which is what create_case
\* left, what a successful apply_transition committed and what a refused one
\* finds and leaves, is the team NEXT_TEAM_HINT names for the status of the
\* Case, and none exactly when there is no hint for that status.
C9_TeamFollowsStatus ==
  \A c \in CaseIds :
    /\ cases[c].assigned_team = TeamByName(NEXT_TEAM_HINT[cases[c].status])
    /\ cases[c].assigned_team = NONE <=> NEXT_TEAM_HINT[cases[c].status] = NONE

(* ------------------------------- C10 ----------------------------------- *)
RECURSIVE ReachableFrom(_, _)
\* the statuses the entries of TRANSITIONS lead to from a set of statuses,
\* in at most n steps
ReachableFrom(S, n) ==
  IF n = 0 THEN S
  ELSE ReachableFrom(S \cup { t.to : t \in { x \in TRANSITIONS : x.from \in S } }, n - 1)

ReachableFromDraft == ReachableFrom({DRAFT}, Cardinality(TRANSITIONS))

\* C10: the status of every Case is reachable from DRAFT through entries of
\* TRANSITIONS, and a successful apply_transition with action_label on a Case
\* of status s sets the status to the one the entry (s, action_label) of the
\* table gives, which is the status the commit stores.
C10_StatusFollowsTable ==
  /\ [](\A c \in CaseIds :
          /\ cases[c].status \in ReachableFromDraft
          /\ \A label \in ActionLabels, user \in Users, notes \in Notes :
               LET u == apply_transition(Loaded(c), user, label, notes, now) IN
                 u.ret = TRUE =>
                   \E t \in TRANSITIONS :
                     /\ t.from = cases[c].status
                     /\ t.label = label
                     /\ u.obj.status = t.to)
  /\ [][\A s \in Sessions :
          CommitStep(s) => cases'[sess[s].cid].status = sess[s].obj.status]_vars

\* one run stored CLIENT_SIGNED for a Case another run, which read it in
\* SENT_TO_CLIENT, moved to CLIENT_OPTED_OUT: both follow the table
C10_Witness ==
  \E c \in CaseIds, s \in Sessions :
    /\ cases[c].status = CLIENT_SIGNED
    /\ sess[s].pc = "applied"
    /\ sess[s].cid = c
    /\ sess[s].base.status = SENT_TO_CLIENT
    /\ sess[s].obj.status = CLIENT_OPTED_OUT

(* ------------------------------- C11 ----------------------------------- *)
\* C11: the due_at of every Case is null or not before its created_at; it is
\* null as long as no transition of the Case succeeded and non-null in every
\* state after one did.
C11_DueAtNullOrLater ==
  \A c \in CaseIds :
    /\ \A d \in cases[c].due_at, t0 \in cases[c].created_at : d >= t0
    /\ cases[c].created_at # NULL
    /\ succeeded[c] = 0 <=> cases[c].due_at = NULL

\* a Case created on day 1 that one transition made due on day 11
C11_Witness ==
  \E c \in CaseIds :
    /\ cases[c].created_at = {1}
    /\ succeeded[c] = 1
    /\ cases[c].due_at = {11}

(* ------------------------------- C12 ----------------------------------- *)
\* C12: in TRANSITIONS, CLIENT_OPTED_OUT and COMPLETED have no outgoing
\* entry and every other status has one or two, under pairwise distinct
\* labels; the labels offered for the status of a Case are none exactly for
\* these two statuses, and apply_transition returns True for a label exactly
\* when the label is one of those offered.
C12_TerminalsAndLabels ==
  /\ \A st \in CaseStatus :
       LET out == { t \in TRANSITIONS : t.from = st } IN
         /\ st \in {CLIENT_OPTED_OUT, COMPLETED} => out = {}
         /\ st \notin {CLIENT_OPTED_OUT, COMPLETED} =>
              /\ Cardinality(out) \in {1, 2}
              /\ \A t1, t2 \in out : t1 # t2 => t1.label # t2.label
         /\ available(st) = {} <=> st \in {CLIENT_OPTED_OUT, COMPLETED}
  /\ \A c \in CaseIds, label \in ActionLabels, user \in Users, notes \in Notes :
       apply_transition(Loaded(c), user, label, notes, now).ret
         = (label \in available(cases[c].status))

\* a Case with two labels on offer, one of which a run has applied
C12_Witness ==
  \E c \in CaseIds, s \in Sessions :
    /\ cases[c].status = SENT_TO_CLIENT
    /\ available(cases[c].status) = {"Mark Client Signed", "Mark Client Opted Out"}
    /\ sess[s].pc = "applied"
    /\ sess[s].cid = c
    /\ sess[s].obj.status = CLIENT_SIGNED

(* ------------------------------- C13 ----------------------------------- *)
\* C13: no Case is in the store without its "created" audit entry, and when
\* the "Create Case" handler completes, its Case has status DRAFT, no
\* due_at, the team "Data", no task and the one audit entry "created".
C13_CreatedWithItsEntry ==
  /\ [](\A c \in CaseIds : \E i \in 1..Len(LogsOf(c)) : LogsOf(c)[i].action = "created")
  /\ [][\A s \in Sessions :
          sess[s].pc = "case_saved" /\ sess'[s].pc = "idle" /\ audit_logs' # audit_logs =>
            LET c == sess[s].cid IN
              /\ cases'[c].status = DRAFT
              /\ cases'[c].due_at = NULL
              /\ cases'[c].assigned_team = "Data"
              /\ RowsOf(tasks', c) = <<>>
              /\ Len(RowsOf(audit_logs', c)) = 1
              /\ RowsOf(audit_logs', c)[1].action = "created"]_vars

(* ------------------------------- C14 ----------------------------------- *)
\* C14: "Create Case" with an empty client name or an empty provider name is
\* rejected before anything is persisted: the store never holds a Provider
\* or a Client without a name, nor a Case, with its audit entry, of a client
\* or a provider without a name.
C14_EmptyNameRejected ==
  /\ \A i \in 1..Len(providers) : providers[i] # ""
  /\ \A i \in 1..Len(clients) : clients[i].name # "" /\ clients[i].provider # ""
  /\ \A c \in CaseIds : cases[c].client # "" /\ cases[c].provider # ""
  /\ \A i \in 1..Len(audit_logs) :
       cases[audit_logs[i].case_id].client # "" /\ cases[audit_logs[i].case_id].provider # ""

(* ------------------------------- C15 ----------------------------------- *)
\* C15: providers and clients are upserted by name.  In every state, under
\* every interleaving of "Create Case" runs, the store holds one Provider at
\* most and one Client at most of a name, the provider and the client of
\* every Case are in it, and no run is left to insert a name the table
\* holds already, which fails or duplicates the record.
C15_UpsertByName ==
  /\ \A i, j \in 1..Len(providers) : providers[i] = providers[j] => i = j
  /\ \A i, j \in 1..Len(clients) : clients[i].name = clients[j].name => i = j
  /\ \A c \in CaseIds :
       ProviderFound(cases[c].provider) /\ ClientFound(clients, cases[c].client)
  /\ \A s \in Sessions :
       /\ sess[s].pc = "provider_new" => ~ProviderFound(sess[s].provider_name)
       /\ sess[s].pc = "client_new" => ~ClientFound(clients, sess[s].client_name)

(* ------------------------------- C16 ----------------------------------- *)
\* the unit of work v holds the Case, the tasks and the audit entries of u
SameEffects(u, v) ==
  /\ v.obj = u.obj
  /\ v.new_tasks = u.new_tasks
  /\ v.new_logs = u.new_logs

\* C16: after apply_transition with label L succeeded, from status s to s',
\* the same call again fails and fails again, and leaves status, due_at,
\* team, tasks and audit entries as the first call left them: in the run
\* that made the call, and in every run that reads the Case once it is
\* committed in s'.
C16_RejectionIdempotent ==
  \A user \in Users, notes \in Notes, t \in TRANSITIONS :
    /\ \A s \in Sessions :
         (/\ sess[s].pc = "applied"
          /\ sess[s].base.status = t.from
          /\ sess[s].obj.status = t.to) =>
           LET u == sess[s]
               v == apply_transition(u, user, t.label, notes, now)
               w == apply_transition(v, user, t.label, notes, now)
           IN /\ v.ret = FALSE /\ SameEffects(u, v)
              /\ w.ret = FALSE /\ SameEffects(u, w)
    /\ \A c \in CaseIds :
         cases[c].status = t.to =>
           LET u == Loaded(c)
               v == apply_transition(u, user, t.label, notes, now)
               w == apply_transition(v, user, t.label, notes, now)
           IN /\ v.ret = FALSE /\ SameEffects(u, v)
              /\ w.ret = FALSE /\ SameEffects(u, w)

\* "Complete Case" has succeeded in a run, on a Case that other transitions
\* were committed on
C16_Witness ==
  \E s \in Sessions :
    /\ sess[s].pc = "applied"
    /\ sess[s].base.status = IO_CLOSED_NEW_FEE
    /\ sess[s].obj.status = COMPLETED
    /\ cases[sess[s].cid].status = IO_CLOSED_NEW_FEE
    /\ Len(sess[s].new_logs) = 1

(* ------------------------------- C17 ----------------------------------- *)
\* C17: the task a transition spawns is OPEN, belongs to the team the
\* routing table names for the new status, is titled with the new status and
\* is due 5 days after the call; a transition to a status without a team
\* spawns none.  The commit inserts what the call spawned.
C17_SpawnedTask ==
  [][\A s \in Sessions :
       /\ ApplyStep(s) =>
            LET u == sess'[s]
                hint == NEXT_TEAM_HINT[u.obj.status]
            IN IF hint = NONE
                 THEN /\ u.obj.assigned_team = NONE
                      /\ u.new_tasks = <<>>
                 ELSE /\ Len(u.new_tasks) = 1
                      /\ u.new_tasks[1].case_id = u.cid
                      /\ u.new_tasks[1].status = OPEN
                      /\ u.new_tasks[1].team = hint
                      /\ u.new_tasks[1].title = u.obj.status
                      /\ u.new_tasks[1].due_at = {now + 5}
       /\ CommitStep(s) =>
            RowsOf(tasks', sess[s].cid) = TasksOf(sess[s].cid) \o sess[s].new_tasks]_vars

\* the task of "Submit to Provider" belongs to the new team, the one before
\* it to the team the Case had
C17_Witness ==
  \E i \in 1..Len(tasks) :
    /\ i > 1
    /\ tasks[i].title = SUBMITTED_TO_PROVIDER
    /\ tasks[i].team = "Tech Excellence Center"
    /\ tasks[i].status = OPEN
    /\ tasks[i].due_at = {6}
    /\ tasks[i - 1].team = "Submission & Novation"

(* ------------------------------- C18 ----------------------------------- *)
\* users and notes a call of apply_transition may be given
AnyUsers == { NONE, "1" }
AnyNotes == { "", "signed copy received by post" }

\* C18: the audit trail is append-only.  Across every step the audit_logs
\* table, and with it the trail of every Case, keeps the entries it had,
\* unchanged and in place, in front of those the step adds.  The entry a
\* successful apply_transition adds holds the audit action of the entry of
\* TRANSITIONS, the acting user (or none) and the note, and the commit
\* appends it as it is, stamped with the time of the insert.
C18_AuditAppendOnly ==
  /\ [](\A c \in CaseIds, label \in ActionLabels, user \in AnyUsers, notes \in AnyNotes :
          LET u == apply_transition(Loaded(c), user, label, notes, now) IN
            u.ret = TRUE =>
              \E t \in TRANSITIONS :
                /\ t.from = cases[c].status
                /\ t.label = label
                /\ u.new_logs = << [ case_id |-> c, user_id |-> user,
                                     action |-> t.audit, notes |-> notes ] >>)
  /\ [][/\ Len(audit_logs') >= Len(audit_logs)
        /\ SubSeq(audit_logs', 1, Len(audit_logs)) = audit_logs
        /\ \A c \in CaseIds :
             LET old == LogsOf(c) new == RowsOf(audit_logs', c) IN
               /\ Len(new) >= Len(old)
               /\ SubSeq(new, 1, Len(old)) = old
        /\ \A s \in Sessions :
             CommitStep(s) =>
               LET e == sess[s].new_logs[1] IN
                 audit_logs' = Append(audit_logs,
                   [ case_id |-> sess[s].cid, user_id |-> e.user_id,
                     action |-> e.action, notes |-> e.notes,
                     created_at |-> {now} ])]_vars

\* two runs applied the same transition to one Case: both entries are kept
C18_Witness ==
  \E c \in CaseIds :
    /\ ActionsOf(c) = <<"created", "ready_to_send", "ready_to_send">>
    /\ LogsOf(c)[1].created_at = {0}
    /\ LogsOf(c)[3].created_at = {1}

(* ------------------------------- C19 ----------------------------------- *)
\* C19: apply_transition and its commit leave the tasks that exist as they
\* are.  Across every step the tasks table, and with it the task list of
\* every Case, keeps its rows with their status, team, title and due date,
\* in front of the row the step adds; the tasks of earlier transitions stay
\* OPEN with their team when the Case has moved on.
C19_TasksKept ==
  /\ [](\A i \in 1..Len(tasks) : tasks[i].status = OPEN)
  /\ [][/\ Len(tasks') >= Len(tasks)
        /\ SubSeq(tasks', 1, Len(tasks)) = tasks
        /\ \A c \in CaseIds :
             LET old == TasksOf(c) new == RowsOf(tasks', c) IN
               /\ Len(new) >= Len(old)
               /\ SubSeq(new, 1, Len(old)) = old]_vars

\* the Case is with "Submission & Novation" and the task of its first
\* transition is still OPEN with "Admin Solution"
C19_Witness ==
  \E c \in CaseIds :
    /\ cases[c].status = CLIENT_SIGNED
    /\ cases[c].assigned_team = "Submission & Novation"
    /\ Len(TasksOf(c)) = 3
    /\ TasksOf(c)[1].team = "Admin Solution"
    /\ TasksOf(c)[1].status = OPEN
    /\ TasksOf(c)[1].title = READY_TO_SEND

(* ------------------------------- C20 ----------------------------------- *)
\* session s calls apply_transition on Case a, or commits what it applied
StepOn(s, a) ==
  \/ ApplyStep(s) /\ sess'[s].cid = a
  \/ CommitStep(s) /\ sess[s].cid = a

\* C20: Cases are independent.  A step of apply_transition on Case a, or of
\* its commit, leaves the row, the tasks and the audit entries of every other
\* Case b as they are and leaves the runs that work on b as they are: the
\* commit such a run could make before the step it can make after it (it
\* neither fails nor waits), with the same effect.
C20_CasesIndependent ==
  [][\A s \in Sessions, a \in CaseIds, b \in CaseIds :
       (a # b /\ StepOn(s, a)) =>
         /\ cases'[b] = cases[b]
         /\ RowsOf(tasks', b) = TasksOf(b)
         /\ RowsOf(audit_logs', b) = LogsOf(b)
         /\ \A r \in Sessions \ {s} :
              /\ sess'[r] = sess[r]
              /\ (sess[r].cid = b /\ ENABLED Commit(r)) => (ENABLED Commit(r))'
              /\ (sess[r].cid = b /\ ENABLED LogCreated(r, NONE)) =>
                   (ENABLED LogCreated(r, NONE))']_vars

\* one Case was moved twice while a run holds a transition of the other
C20_Witness ==
  \E a \in CaseIds, b \in CaseIds, s \in Sessions :
    /\ a # b
    /\ cases[a].status = SENT_TO_CLIENT
    /\ Len(TasksOf(a)) = 2
    /\ cases[b].status = DRAFT
    /\ ActionsOf(b) = <<"created">>
    /\ TasksOf(b) = <<>>
    /\ sess[s].pc = "applied"
    /\ sess[s].cid = b

(* ------------------------------- C21 ----------------------------------- *)
RECURSIVE PathEnd(_, _, _)
\* the statuses at which the entries of TRANSITIONS whose audit actions are
\* acts[i], acts[i+1], ... in this order arrive from status cur
PathEnd(acts, i, cur) ==
  IF i > Len(acts) THEN {cur}
  ELSE UNION { PathEnd(acts, i + 1, t.to) :
                 t \in { x \in TRANSITIONS : x.from = cur /\ x.audit = acts[i] } }

\* C21: the audit trail of every Case is "created" followed by the audit
\* actions of a path of TRANSITIONS from DRAFT to the status of the Case (so
\* its last entry names that status, or is "created" in DRAFT), and no trail
\* holds both "client_signed" and "client_opted_out".
C21_TrailIsLegalPath ==
  \A c \in CaseIds :
    LET a == ActionsOf(c) IN
      /\ Len(a) >= 1
      /\ a[1] = "created"
      /\ cases[c].status \in PathEnd(a, 2, DRAFT)
      /\ ~(\E i, j \in 1..Len(a) : a[i] = "client_signed" /\ a[j] = "client_opted_out")

(* ------------------------------- C22 ----------------------------------- *)
\* a run calls apply_transition on Case c with a label on offer
TakeAction(c) ==
  \E s \in Sessions, user \in Users, label \in ActionLabels, notes \in Notes :
    /\ Transition(s, c, user, label, notes)
    /\ sess'[s].pc = "applied"

\* The workflow with its users at work: a Case with a label on offer has one
\* taken again and again, and a run that can commit does commit.
FairSpec ==
  /\ Spec
  /\ \A c \in CaseSlots : SF_vars(TakeAction(c))
  /\ \A s \in Sessions : SF_vars(Commit(s))
  /\ \A s \in Sessions : SF_vars(\E user \in Users : LogCreated(s, user))

\* the statuses the stored Case c has had: DRAFT, and the status of every
\* transition committed on it, each of which left its audit entry
VisitedStatuses(c) ==
  {DRAFT} \cup { t.to : t \in { x \in TRANSITIONS :
                   \E i \in 1..Len(LogsOf(c)) : LogsOf(c)[i].action = x.audit } }

\* C22: the workflow is acyclic and every Case terminates.  The status of a
\* Case never changes to one the Case has had, a Case has at most 8
\* successful transitions, and with actions taken whenever there are any,
\* every Case reaches COMPLETED or CLIENT_OPTED_OUT and stays there.
C22_AcyclicAndTerminates ==
  /\ [][\A c \in CaseIds :
          cases'[c].status # cases[c].status =>
            cases'[c].status \notin VisitedStatuses(c)]_vars
  /\ [](\A c \in CaseIds : succeeded[c] <= 8)
  /\ \A c \in CaseSlots :
       [](c \in CaseIds =>
            <>[](c \in CaseIds /\ cases[c].status \in {COMPLETED, CLIENT_OPTED_OUT}))

====
